---- MODULE Spec2Model ----
(***************************************************************************)
(* weighted-rs: three weighted selectors behind the trait Weight           *)
(* (next / add / all / remove_all / reset):                                *)
(*   RandWeight        random_weight.rs      cumulative-weight random pick *)
(*   RoundrobinWeight  roundrobin_weight.rs  LVS weighted round robin      *)
(*   SmoothWeight      smooth_weight.rs      Nginx smooth weighted rr      *)
(* A caller constructs one selector (sel) and calls its methods in any     *)
(* order.  Every method is one action; the value next() returned is kept   *)
(* in result, the position of the returned entry in picked.                *)
(***************************************************************************)
EXTENDS Integers, Sequences, FiniteSets, TLC

\* ---------------------------------------------------------------- bounds
\* Most entries a selector holds at once.
MaxItems == 3
\* Largest weight handed to add() in the unrestricted specification Spec.
MaxWeight == 2
\* Largest weight handed to add() in the fresh-selector specification.
MaxCycleWeight == 5
\* Number of full cycles of next() calls logged on a fresh selector.
Cycles == 2

\* Weights add() is called with: negative, zero and positive ones.
Weights == {0 - 1, 0} \cup (1..MaxWeight)
\* Positive weights of the fresh-selector runs.
CycleWeights == 1..MaxCycleWeight
\* Candidate values of the unrestricted runs (the same value may be added twice).
Items == {"a", "b"}
\* Candidate values for the add() that follows len entries.  Candidates are
\* opaque to the selectors, so the first entry is named "a" without loss.
ItemsAfter(len) == IF len = 0 THEN {"a"} ELSE Items
\* Candidate values of the fresh-selector runs: the k-th add() adds Names[k].
Names == <<"a", "b", "c", "d", "e">>
\* Longest log of next() results.
MaxCalls == Cycles * MaxItems * MaxCycleWeight
\* Cap on the magnitude of the stale sum_of_weights remove_all() leaves.
MaxStale == 2
\* Iterations granted to the loop of RoundrobinWeight::next.
LoopFuel == (MaxItems + 2) * (MaxCycleWeight + 2)

\* Option<T>::None, a panic unwinding out of next(), and "no next() call yet".
None == "None"
Panic == "Panic"
NoCall == "NoCall"

VARIABLES
    sel,      \* the selector constructed: "Rand", "RR" or "Smooth"
    rand,     \* the RandWeight struct
    rr,       \* the RoundrobinWeight struct
    sw,       \* the SmoothWeight struct
    op,       \* the last method called ("new" right after construction)
    result,   \* what the last call returned if it was next(), else NoCall
    picked,   \* 1-based position of the entry next() returned, 0 if none
    logging,  \* TRUE in the runs that log next() results
    trace     \* the log: results of the next() calls so far

vars == <<sel, rand, rr, sw, op, result, picked, logging, trace>>

Abs(x) == IF x < 0 THEN 0 - x ELSE x

RECURSIVE SumWeights(_)
\* Sum of the weights of a list of entries.
SumWeights(items) ==
    IF items = <<>> THEN 0
    ELSE items[1].weight + SumWeights(Tail(items))

\* An outcome of next(): the returned value and the position it came from.
Outcome(ret, idx) == [ret |-> ret, idx |-> idx]

\* ------------------------------------------------------------ RandWeight
RandWeightItem(item, weight) == [item |-> item, weight |-> weight]

\* The field r (the ThreadRng) has no state of its own here: every draw of
\* next() is a free choice from the range gen_range is called with.
RandNew == [items |-> <<>>, n |-> 0, sum_of_weights |-> 0]

\* rand's gen_range(low, high) panics when low >= high.
GenRangePanics(low, high) == low >= high
\* The values gen_range(low, high) can return.
GenRange(low, high) == low..(high - 1)

\* The test that ends the cumulative-subtraction walk.
RandHit(index) == index <= 0

RECURSIVE RandWalk(_, _, _)
\* The for loop of next(): position of the first entry at which the running
\* value satisfies RandHit, 0 when the loop runs off the end.
RandWalk(items, index, k) ==
    IF k > Len(items) THEN 0
    ELSE LET idx == index - items[k].weight
         IN  IF RandHit(idx) THEN k ELSE RandWalk(items, idx, k + 1)

\* next() on at least two entries with the draw r.
RandSelect(s, r) ==
    LET k == RandWalk(s.items, r, 1)
    IN  IF k > 0 THEN Outcome(s.items[k].item, k)
        ELSE Outcome(s.items[s.n].item, s.n)

\* RandShort without the single-entry case.
RandShort_NoSingle(s) == s.n = 0

\* TRUE when next() returns before drawing.
RandShort(s) == s.n = 0 \/ s.n = 1

\* next() on zero or one entry.
RandShortOutcome(s) ==
    IF s.n = 0 THEN Outcome(None, 0) ELSE Outcome(s.items[1].item, 1)

\* Every outcome next() can have.
RandNextOutcomes(s) ==
    IF RandShort(s) THEN {RandShortOutcome(s)}
    ELSE IF GenRangePanics(0, s.sum_of_weights) THEN {Outcome(Panic, 0)}
    ELSE {RandSelect(s, r) : r \in GenRange(0, s.sum_of_weights)}

RandAdd(s, item, weight) ==
    [items |-> Append(s.items, RandWeightItem(item, weight)),
     n |-> s.n + 1,
     sum_of_weights |-> s.sum_of_weights + weight]

\* HashMap::insert: the value of an existing key is overwritten.
HashMapInsert(m, key, value) ==
    [x \in (DOMAIN m) \cup {key} |-> IF x = key THEN value ELSE m[x]]

RECURSIVE HashMapOf(_)
\* The HashMap the loop of all() builds from a list of entries.
HashMapOf(items) ==
    IF items = <<>> THEN <<>>
    ELSE LET e == items[Len(items)]
         IN  HashMapInsert(HashMapOf(SubSeq(items, 1, Len(items) - 1)),
                           e.item, e.weight)

\* all(): a HashMap from item to weight.
RandAll(s) == HashMapOf(s.items)

RandRemoveAll(s) == [s EXCEPT !.items = <<>>, !.n = 0]

RandReset(s) == s

\* ------------------------------------------------------ RoundrobinWeight
RRWeightItem(item, weight) == [item |-> item, weight |-> weight]

\* Rust's % on isize: the remainder has the sign of the dividend.
RustRem(a, b) ==
    IF a >= 0 THEN a % Abs(b) ELSE 0 - ((0 - a) % Abs(b))

RRNew == [items |-> <<>>, gcd |-> 0, max_w |-> 0, i |-> 0, cw |-> 0]

\* The cursor after one advance.
RRAdvance(i, len) == RustRem(i + 1, len)

\* RRCountdown without the reload from max_w.
RRCountdown_NoReload(cw, g, max_w) == cw - g

\* The countdown after the cursor wrapped to 0, before the None test.
RRCountdown(cw, g, max_w) ==
    LET c == cw - g
    IN  IF c <= 0 THEN max_w ELSE c

\* RREligible with the comparison made strict.
RREligible_Strict(weight, cw) == weight > cw

\* The test that makes the loop return the entry under the cursor.
RREligible(weight, cw) == weight >= cw

RECURSIVE RRLoop(_, _)
\* The loop of next() on at least two entries: the struct it leaves behind
\* and its outcome.  fuel is the number of iterations still granted; the
\* outcome "Diverge" says they ran out.
RRLoop(s, fuel) ==
    IF fuel = 0 THEN [s |-> s, out |-> Outcome("Diverge", 0)]
    ELSE
    LET i1   == RRAdvance(s.i, Len(s.items))
        cw1  == IF i1 = 0 THEN RRCountdown(s.cw, s.gcd, s.max_w) ELSE s.cw
        none == i1 = 0 /\ s.cw - s.gcd <= 0 /\ cw1 = 0
        s1   == [s EXCEPT !.i = i1, !.cw = cw1]
    IN  IF none THEN [s |-> s1, out |-> Outcome(None, 0)]
        ELSE IF RREligible(s1.items[i1 + 1].weight, cw1)
             THEN [s |-> s1, out |-> Outcome(s1.items[i1 + 1].item, i1 + 1)]
             ELSE RRLoop(s1, fuel - 1)

\* TRUE when next() returns items.first() without entering the loop.
RRShort(s) == Len(s.items) <= 1

\* next(): the struct afterwards and the outcome.
RRNext(s) ==
    IF RRShort(s)
    THEN [s |-> s,
          out |-> IF s.items = <<>> THEN Outcome(None, 0)
                  ELSE Outcome(s.items[1].item, 1)]
    ELSE RRLoop(s, LoopFuel)

RECURSIVE gcd(_, _)
\* The Euclidean loop of fn gcd, for y > 0.
gcd(x, y) ==
    LET t == RustRem(x, y)
    IN  IF t > 0 THEN gcd(y, t) ELSE y

RRAdd(s, item, weight) ==
    LET s1 == IF weight > 0
              THEN IF s.gcd = 0
                   THEN [s EXCEPT !.gcd = weight, !.max_w = weight,
                                  !.i = 0 - 1, !.cw = 0]
                   ELSE [s EXCEPT !.gcd = gcd(s.gcd, weight),
                                  !.max_w = IF s.max_w < weight THEN weight
                                            ELSE s.max_w]
              ELSE s
    IN  [s1 EXCEPT !.items = Append(s.items, RRWeightItem(item, weight))]

\* all(): an iterator over the (item, weight) pairs of the entries.
RRAll(s) == [k \in 1..Len(s.items) |-> <<s.items[k].item, s.items[k].weight>>]

\* RRRemoveAll that forgets to zero gcd and max_w.
RRRemoveAll_KeepsAggregates(s) ==
    [s EXCEPT !.items = <<>>, !.i = 0 - 1, !.cw = 0]

RRRemoveAll(s) ==
    [items |-> <<>>, gcd |-> 0, max_w |-> 0, i |-> 0 - 1, cw |-> 0]

RRReset(s) == [s EXCEPT !.i = 0 - 1, !.cw = 0]

\* ---------------------------------------------------------- SmoothWeight
SmoothWeightItem(item, weight) ==
    [item |-> item, weight |-> weight,
     current_weight |-> 0, effective_weight |-> weight]

SWNew == [items |-> <<>>, n |-> 0]

\* SWBump with the recovery step taken on every pass.
SWBump_AlwaysRecovers(e) ==
    [e EXCEPT !.current_weight = e.current_weight + e.effective_weight,
              !.effective_weight = e.effective_weight + 1]

\* One entry after the scan passed it: current_weight raised by the
\* effective weight, the effective weight moved one step toward weight.
SWBump(e) ==
    [e EXCEPT !.current_weight = e.current_weight + e.effective_weight,
              !.effective_weight = IF e.effective_weight < e.weight
                                   THEN e.effective_weight + 1
                                   ELSE e.effective_weight]

\* SWBetter with ties going to the later entry.
SWBetter_Ties(found, cur, best) ==
    ~found \/ cur.current_weight >= best.current_weight

\* The test that makes the scanned entry the new best.
SWBetter(found, cur, best) ==
    ~found \/ cur.current_weight > best.current_weight

RECURSIVE SWScan(_, _, _, _, _, _)
\* The for loop of next_smooth_weighted from position k on.
SWScan(items, k, total, best, best_index, found) ==
    IF k > Len(items)
    THEN [items |-> items, total |-> total, best |-> best,
          best_index |-> best_index, found |-> found]
    ELSE LET e      == SWBump(items[k])
             items1 == [items EXCEPT ![k] = e]
             total1 == total + items[k].effective_weight
         IN  IF SWBetter(found, e, best)
             THEN SWScan(items1, k + 1, total1, e, k, TRUE)
             ELSE SWScan(items1, k + 1, total1, best, best_index, found)

\* SWPay with the winner's accumulator cleared instead of reduced.
SWPay_Cleared(current_weight, total) == 0

\* SWPay with the winner paying one point too few.
SWPay_Short(current_weight, total) == current_weight - total + 1

\* The winner's current_weight after it paid for being chosen.
SWPay(current_weight, total) == current_weight - total

\* next_smooth_weighted on a non-empty list.
next_smooth_weighted(s) ==
    LET r == SWScan(s.items, 1, 0, s.items[1], 1, FALSE)
    IN  IF ~r.found THEN [s |-> [s EXCEPT !.items = r.items],
                          out |-> Outcome(None, 0)]
        ELSE [s |-> [s EXCEPT !.items =
                        [r.items EXCEPT ![r.best_index].current_weight =
                            SWPay(r.items[r.best_index].current_weight, r.total)]],
              out |-> Outcome(r.best.item, r.best_index)]

\* TRUE when next() returns without calling next_smooth_weighted.
SWShort(s) == s.n = 0 \/ s.n = 1

\* next(): the struct afterwards and the outcome.
SWNext(s) ==
    IF SWShort(s)
    THEN [s |-> s,
          out |-> IF s.n = 0 THEN Outcome(None, 0)
                  ELSE Outcome(s.items[1].item, 1)]
    ELSE next_smooth_weighted(s)

SWAdd(s, item, weight) ==
    [items |-> Append(s.items, SmoothWeightItem(item, weight)), n |-> s.n + 1]

\* all(): a HashMap from item to weight.
SWAll(s) == HashMapOf(s.items)

SWRemoveAll(s) == [items |-> <<>>, n |-> 0]

\* SWReset that restores the effective weights but keeps the accumulators.
SWReset_KeepsCurrent(s) ==
    [s EXCEPT !.items =
        [k \in 1..Len(s.items) |->
            [s.items[k] EXCEPT !.effective_weight = s.items[k].weight]]]

SWReset(s) ==
    [s EXCEPT !.items =
        [k \in 1..Len(s.items) |->
            [s.items[k] EXCEPT !.current_weight = 0,
                               !.effective_weight = s.items[k].weight]]]

\* --------------------------------------------------------------- actions
Diverge == "Diverge"

\* A panic or a loop that never returns ends the run.
Alive == result \notin {Panic, Diverge}

\* The entries the constructed selector holds.
Held == IF sel = "Rand" THEN rand.items
        ELSE IF sel = "RR" THEN rr.items ELSE sw.items

\* Bookkeeping of a call other than next().
Called(name) ==
    /\ op' = name
    /\ result' = NoCall
    /\ picked' = 0
    /\ UNCHANGED <<sel, logging, trace>>

\* Bookkeeping of a next() call with outcome out.
Returned(out) ==
    /\ op' = "next"
    /\ result' = out.ret
    /\ picked' = out.idx
    /\ trace' = IF logging THEN Append(trace, out.ret) ELSE trace
    /\ UNCHANGED <<sel, logging>>

\* next() may be called while the log has room.
CanLog == logging => Len(trace) < MaxCalls

RandNextAct ==
    /\ sel = "Rand" /\ Alive /\ CanLog
    /\ \E out \in RandNextOutcomes(rand) : Returned(out)
    /\ rand' = rand
    /\ UNCHANGED <<rr, sw>>

RandAddAct(item, weight) ==
    /\ sel = "Rand" /\ Alive
    /\ Len(rand.items) < MaxItems
    /\ rand' = RandAdd(rand, item, weight)
    /\ Called("add")
    /\ UNCHANGED <<rr, sw>>

RandRemoveAllAct ==
    /\ sel = "Rand" /\ Alive
    /\ Abs(rand.sum_of_weights) <= MaxStale
    /\ rand' = RandRemoveAll(rand)
    /\ Called("remove_all")
    /\ UNCHANGED <<rr, sw>>

RandResetAct ==
    /\ sel = "Rand" /\ Alive
    /\ rand' = RandReset(rand)
    /\ Called("reset")
    /\ UNCHANGED <<rr, sw>>

RandAllAct ==
    /\ sel = "Rand" /\ Alive
    /\ Called("all")
    /\ UNCHANGED <<rand, rr, sw>>

RRNextAct ==
    /\ sel = "RR" /\ Alive /\ CanLog
    /\ LET r == RRNext(rr)
       IN  rr' = r.s /\ Returned(r.out)
    /\ UNCHANGED <<rand, sw>>

RRAddAct(item, weight) ==
    /\ sel = "RR" /\ Alive
    /\ Len(rr.items) < MaxItems
    /\ rr' = RRAdd(rr, item, weight)
    /\ Called("add")
    /\ UNCHANGED <<rand, sw>>

RRRemoveAllAct ==
    /\ sel = "RR" /\ Alive
    /\ rr' = RRRemoveAll(rr)
    /\ Called("remove_all")
    /\ UNCHANGED <<rand, sw>>

RRResetAct ==
    /\ sel = "RR" /\ Alive
    /\ rr' = RRReset(rr)
    /\ Called("reset")
    /\ UNCHANGED <<rand, sw>>

RRAllAct ==
    /\ sel = "RR" /\ Alive
    /\ Called("all")
    /\ UNCHANGED <<rand, rr, sw>>

RECURSIVE SumAbsWeights(_)
\* Sum of the magnitudes of the weights of a list of entries.
SumAbsWeights(items) ==
    IF items = <<>> THEN 0
    ELSE Abs(items[1].weight) + SumAbsWeights(Tail(items))

\* Cap on the accumulators: with negative weights they grow without bound,
\* with positive weights they stay below the sum of the weights.
WithinAcc(items) ==
    \A k \in 1..Len(items) :
        Abs(items[k].current_weight) <= SumAbsWeights(items)

SWNextAct ==
    /\ sel = "Smooth" /\ Alive /\ CanLog
    /\ LET r == SWNext(sw)
       IN  /\ WithinAcc(r.s.items)
           /\ sw' = r.s
           /\ Returned(r.out)
    /\ UNCHANGED <<rand, rr>>

SWAddAct(item, weight) ==
    /\ sel = "Smooth" /\ Alive
    /\ Len(sw.items) < MaxItems
    /\ sw' = SWAdd(sw, item, weight)
    /\ Called("add")
    /\ UNCHANGED <<rand, rr>>

SWRemoveAllAct ==
    /\ sel = "Smooth" /\ Alive
    /\ sw' = SWRemoveAll(sw)
    /\ Called("remove_all")
    /\ UNCHANGED <<rand, rr>>

SWResetAct ==
    /\ sel = "Smooth" /\ Alive
    /\ sw' = SWReset(sw)
    /\ Called("reset")
    /\ UNCHANGED <<rand, rr>>

SWAllAct ==
    /\ sel = "Smooth" /\ Alive
    /\ Called("all")
    /\ UNCHANGED <<rand, rr, sw>>

\* ------------------------------------------------------- specifications
\* The state new() leaves, for the selector chosen.
Constructed(kinds, log) ==
    /\ sel \in kinds
    /\ rand = RandNew
    /\ rr = RRNew
    /\ sw = SWNew
    /\ op = "new"
    /\ result = NoCall
    /\ picked = 0
    /\ logging = log
    /\ trace = <<>>

\* Spec: any selector, any sequence of add / next / reset / remove_all.
Init == Constructed({"Rand", "RR", "Smooth"}, FALSE)

Next ==
    \/ RandNextAct
    \/ \E item \in ItemsAfter(Len(rand.items)), weight \in Weights :
          RandAddAct(item, weight)
    \/ RandRemoveAllAct
    \/ RandResetAct
    \/ RRNextAct
    \/ \E item \in ItemsAfter(Len(rr.items)), weight \in Weights :
          RRAddAct(item, weight)
    \/ RRRemoveAllAct
    \/ RRResetAct
    \/ SWNextAct
    \/ \E item \in ItemsAfter(Len(sw.items)), weight \in Weights :
          SWAddAct(item, weight)
    \/ SWRemoveAllAct
    \/ SWResetAct
    \/ RandAllAct
    \/ RRAllAct
    \/ SWAllAct

Spec == Init /\ [][Next]_vars

\* SpecFresh: a deterministic selector is constructed, entries with positive
\* weights and distinct candidates are added, then next() is called
\* repeatedly and its results are logged.
InitFresh == Constructed({"RR", "Smooth"}, TRUE)

FreshRRAdd ==
    /\ trace = <<>>
    /\ Len(rr.items) < MaxItems
    /\ \E weight \in CycleWeights : RRAddAct(Names[Len(rr.items) + 1], weight)

FreshSWAdd ==
    /\ trace = <<>>
    /\ Len(sw.items) < MaxItems
    /\ \E weight \in CycleWeights : SWAddAct(Names[Len(sw.items) + 1], weight)

NextFresh ==
    \/ FreshRRAdd
    \/ RRNextAct
    \/ FreshSWAdd
    \/ SWNextAct

SpecFresh == InitFresh /\ [][NextFresh]_vars

\* --------------------------------------------------------------- claims
\* Number of positions of seq holding x.
Count(seq, x) == Cardinality({k \in 1..Len(seq) : seq[k] = x})

\* The weights of a list of entries, in order.
WeightsOf(items) == [k \in 1..Len(items) |-> items[k].weight]

\* TRUE when every entry of the list has a positive weight.
AllPositive(items) == \A k \in 1..Len(items) : items[k].weight > 0

\* TRUE when no entry of the list has a positive weight.
NonePositive(items) == \A k \in 1..Len(items) : items[k].weight <= 0

\* A logged run on a fresh selector: at least two entries, all positive.
FreshRun(items) == logging /\ Len(items) >= 2 /\ AllPositive(items)

\* C1: RoundrobinWeight, fresh, at least two entries with positive weights
\* of sum S: after the first k*S calls of next(), k >= 1, entry i was
\* returned exactly k*w_i times.
C1_RRProportional ==
    (sel = "RR" /\ FreshRun(rr.items) /\ trace # <<>>
        /\ Len(trace) % SumWeights(rr.items) = 0)
    => \A k \in 1..Len(rr.items) :
          Count(trace, rr.items[k].item)
            = (Len(trace) \div SumWeights(rr.items)) * rr.items[k].weight

\* Weights 5, 2, 3 after two full cycles: 10, 4 and 6 returns.
C1_Witness ==
    /\ sel = "RR" /\ logging
    /\ WeightsOf(rr.items) = <<5, 2, 3>>
    /\ Len(trace) = 20
    /\ Count(trace, "a") = 10 /\ Count(trace, "b") = 4 /\ Count(trace, "c") = 6

\* C2: SmoothWeight, fresh, at least two entries with positive weights of
\* sum S: every consecutive block of S calls of next() (calls 1..S,
\* S+1..2S, ...) returns entry i exactly w_i times.
C2_SmoothProportional ==
    (sel = "Smooth" /\ FreshRun(sw.items) /\ trace # <<>>
        /\ Len(trace) % SumWeights(sw.items) = 0)
    => LET S     == SumWeights(sw.items)
           block == SubSeq(trace, Len(trace) - S + 1, Len(trace))
       IN  \A k \in 1..Len(sw.items) :
              Count(block, sw.items[k].item) = sw.items[k].weight

\* Weights 5, 2, 3 at the end of the second block of ten calls.
C2_Witness ==
    /\ sel = "Smooth" /\ logging
    /\ WeightsOf(sw.items) = <<5, 2, 3>>
    /\ Len(trace) = 20
    /\ Count(SubSeq(trace, 11, 20), "a") = 5
    /\ Count(SubSeq(trace, 11, 20), "b") = 2
    /\ Count(SubSeq(trace, 11, 20), "c") = 3

\* The sequence the doc comment of SmoothWeight gives for weights 5, 1, 1.
Interleaved == <<"a", "a", "b", "a", "c", "a", "a">>

\* C3: SmoothWeight, fresh, a (5), b (1), c (1) added in that order: the
\* first seven next() calls return a, a, b, a, c, a, a.
C3_SmoothInterleaving ==
    (sel = "Smooth" /\ logging
        /\ [k \in 1..Len(sw.items) |-> <<sw.items[k].item, sw.items[k].weight>>]
             = <<(<<"a", 5>>), (<<"b", 1>>), (<<"c", 1>>)>>)
    => \A k \in 1..Len(trace) : k <= 7 => trace[k] = Interleaved[k]

\* Seven calls were made on a (5), b (1), c (1).
C3_Witness ==
    /\ sel = "Smooth" /\ logging
    /\ WeightsOf(sw.items) = <<5, 1, 1>>
    /\ Len(trace) = 7
    /\ trace = Interleaved

\* C4: for each selector and after any sequence of calls, next() on zero
\* entries returns None and next() on exactly one entry returns that entry,
\* whatever the sign of its weight.
C4_ShortCircuit ==
    op = "next" =>
        /\ Len(Held) = 0 => (result = None /\ picked = 0)
        /\ Len(Held) = 1 => (result = Held[1].item /\ picked = 1)

\* next() returned the only entry of a RandWeight, of negative weight.
C4_Witness ==
    /\ sel = "Rand" /\ op = "next"
    /\ Len(Held) = 1 /\ Held[1].weight < 0
    /\ result = Held[1].item

\* C5: RandWeight with at least two entries whose weights sum to a positive
\* value: next() never returns an entry whose weight is zero or negative.
C5_NeverNonPositive ==
    (sel = "Rand" /\ op = "next" /\ rand.n >= 2 /\ picked > 0
        /\ SumWeights(rand.items) > 0
        /\ rand.sum_of_weights = SumWeights(rand.items))
    => rand.items[picked].weight > 0

\* C6: RandWeight with at least two entries, all positive, added to a fresh
\* selector: exactly weight_i of the sum_of_weights draws return entry i.
C6_DrawsProportional ==
    (sel = "Rand" /\ rand.n >= 2 /\ AllPositive(rand.items)
        /\ rand.sum_of_weights = SumWeights(rand.items))
    => \A k \in 1..rand.n :
          Cardinality({r \in GenRange(0, rand.sum_of_weights) :
                          RandSelect(rand, r).idx = k})
            = rand.items[k].weight

\* C7: in every reachable state of RandWeight, sum_of_weights is the sum of
\* the weights of the entries held.
C7_SumInvariant ==
    sel = "Rand" => rand.sum_of_weights = SumWeights(rand.items)

\* C8: RandWeight with at least two entries and sum_of_weights <= 0: next()
\* returns None and does not panic.
C8_EmptyRangeGuard ==
    (sel = "Rand" /\ op = "next" /\ rand.n >= 2 /\ rand.sum_of_weights <= 0)
    => result = None

\* C9: RoundrobinWeight and SmoothWeight with at least two entries, every
\* weight zero or negative: next() returns None.
C9_NoEligibleIsNone ==
    (sel \in {"RR", "Smooth"} /\ op = "next" /\ Len(Held) >= 2
        /\ NonePositive(Held))
    => result = None

\* C10: right after remove_all() the selector is in the state new() produces.
C10_RemoveAllIsNew ==
    op = "remove_all" => (rand = RandNew /\ rr = RRNew /\ sw = SWNew)

\* Number of next() calls compared when two selectors are run side by side.
RunLen == 2 * MaxItems * MaxWeight

RECURSIVE RRFresh(_)
\* A RoundrobinWeight built by new() and one add() per entry, in order.
RRFresh(items) ==
    IF items = <<>> THEN RRNew
    ELSE LET e == items[Len(items)]
         IN  RRAdd(RRFresh(SubSeq(items, 1, Len(items) - 1)), e.item, e.weight)

RECURSIVE RRRun(_, _)
\* The outcomes of the next n calls of next() on the RoundrobinWeight s.
RRRun(s, n) ==
    IF n = 0 THEN <<>>
    ELSE LET r == RRNext(s)
         IN  <<r.out>> \o RRRun(r.s, n - 1)

\* C11: RoundrobinWeight::reset() leaves the entries, gcd and max_w
\* unchanged, and the next() calls that follow return what they return on a
\* fresh RoundrobinWeight to which the same entries were added in order,
\* for every weight list (zero and negative weights included).
C11_RRResetRestarts ==
    [][RRResetAct =>
        /\ rr'.items = rr.items
        /\ rr'.gcd = rr.gcd
        /\ rr'.max_w = rr.max_w
        /\ RRRun(rr', RunLen) = RRRun(RRFresh(rr'.items), RunLen)]_vars

RECURSIVE SWFresh(_)
\* A SmoothWeight built by new() and one add() per entry, in order.
SWFresh(items) ==
    IF items = <<>> THEN SWNew
    ELSE LET e == items[Len(items)]
         IN  SWAdd(SWFresh(SubSeq(items, 1, Len(items) - 1)), e.item, e.weight)

\* The (item, weight) pairs of a list of entries, in order.
Pairs(items) == [k \in 1..Len(items) |-> <<items[k].item, items[k].weight>>]

\* C12: SmoothWeight::reset() leaves the entries, their order and weights
\* unchanged, sets every current_weight to 0 and every effective_weight to
\* the weight, and leaves the selector in the very state of a fresh
\* SmoothWeight to which the same entries were added in order; next() reads
\* nothing but that state, so the calls that follow return the same sequence.
C12_SWResetRestarts ==
    [][SWResetAct =>
        /\ Pairs(sw'.items) = Pairs(sw.items)
        /\ \A k \in 1..Len(sw'.items) :
              /\ sw'.items[k].current_weight = 0
              /\ sw'.items[k].effective_weight = sw'.items[k].weight
        /\ sw' = SWFresh(sw'.items)]_vars

\* reset() was called on a SmoothWeight of at least two entries, one of
\* them positive, and left every accumulator at 0.
C12_Witness ==
    /\ sel = "Smooth" /\ op = "reset"
    /\ Len(sw.items) >= 2
    /\ \E k \in 1..Len(sw.items) : sw.items[k].weight > 0
    /\ \A k \in 1..Len(sw.items) : sw.items[k].current_weight = 0
    /\ sw = SWFresh(sw.items)

\* Number of times all() yields the pair p.
Yielded(p) ==
    IF sel = "RR" THEN Count(RRAll(rr), p)
    ELSE LET m == IF sel = "Rand" THEN RandAll(rand) ELSE SWAll(sw)
         IN  IF p[1] \in DOMAIN m /\ m[p[1]] = p[2] THEN 1 ELSE 0

\* C13: for each selector, after k add() calls since construction or the
\* last remove_all(), all() yields exactly k (item, weight) pairs, one per
\* add() with the weight given to it, also when an item was added twice.
C13_AllEnumeratesEveryEntry ==
    op = "all" =>
        \A item \in Items, weight \in Weights :
            Yielded(<<item, weight>>) = Count(Pairs(Held), <<item, weight>>)

\* C14: RandWeight in any reachable state with at least two entries and
\* sum_of_weights > 0: for every draw r in [0, sum_of_weights) the walk
\* returns from inside the loop; the fallback after the loop never runs.
C14_FallbackUnreachable ==
    (sel = "Rand" /\ rand.n >= 2 /\ rand.sum_of_weights > 0)
    => \A r \in GenRange(0, rand.sum_of_weights) :
          RandWalk(rand.items, r, 1) > 0

\* C15: from every reachable state the loop of RoundrobinWeight::next
\* returns (an entry or None): no call runs out of iterations.
C15_RRNextTerminates ==
    /\ result # Diverge
    /\ sel = "RR" => RRNext(rr).out.ret # Diverge

\* next() skipped the first two entries, of which one is not positive,
\* before it returned the third.
C15_Witness ==
    /\ sel = "RR" /\ op = "next"
    /\ Len(rr.items) = 3 /\ picked = 3
    /\ rr.items[1].weight < rr.cw
    /\ rr.items[2].weight < rr.cw
    /\ rr.items[2].weight <= 0

\* The positive weights of a list of entries.
PositiveWeights(items) ==
    {items[k].weight : k \in 1..Len(items)} \cap (1..(MaxWeight + MaxCycleWeight))

\* The largest element of a non-empty set of integers.
Largest(S) == CHOOSE x \in S : \A y \in S : y <= x

\* The greatest common divisor of a set of positive integers, 0 if empty.
GcdOf(S) ==
    IF S = {} THEN 0
    ELSE Largest({d \in 1..Largest(S) : \A x \in S : x % d = 0})

\* C16: in every reachable state of RoundrobinWeight, gcd is the greatest
\* common divisor of the positive weights held and max_w the largest of
\* them, both 0 when no held entry is positive.
C16_RRAggregates ==
    sel = "RR" =>
        /\ rr.gcd = GcdOf(PositiveWeights(rr.items))
        /\ rr.max_w = (IF PositiveWeights(rr.items) = {} THEN 0
                       ELSE Largest(PositiveWeights(rr.items)))

\* Entries of weights 2, -1, 2 are held: gcd = 2 and max_w = 2 although a
\* non-positive entry lies between them.
C16_Witness ==
    /\ sel = "RR"
    /\ WeightsOf(rr.items) = <<2, 0 - 1, 2>>
    /\ rr.gcd = 2 /\ rr.max_w = 2

\* C17: RoundrobinWeight and SmoothWeight in any reachable state with at
\* least two entries, one of them positive: next() returns an entry, and
\* the entry returned has a positive weight.
C17_SkipsIneligible ==
    (sel \in {"RR", "Smooth"} /\ op = "next" /\ Len(Held) >= 2
        /\ ~NonePositive(Held))
    => (picked > 0 /\ Held[picked].weight > 0)

\* C18: in every reachable state of SmoothWeight every entry has
\* effective_weight = weight.
C18_EffectiveIsNominal ==
    sel = "Smooth" =>
        \A k \in 1..Len(sw.items) :
            sw.items[k].effective_weight = sw.items[k].weight

\* next() ran its scan over at least two entries and moved an accumulator.
C18_Witness ==
    /\ sel = "Smooth" /\ op = "next"
    /\ Len(sw.items) >= 2
    /\ \E k \in 1..Len(sw.items) : sw.items[k].current_weight # 0
    /\ \A k \in 1..Len(sw.items) :
          sw.items[k].effective_weight = sw.items[k].weight

RECURSIVE SumCurrent(_)
\* Sum of the current_weight accumulators of a list of entries.
SumCurrent(items) ==
    IF items = <<>> THEN 0
    ELSE items[1].current_weight + SumCurrent(Tail(items))

\* C19: in every reachable state of SmoothWeight, between calls, the
\* current_weight accumulators of the entries sum to 0.
C19_AccumulatorsBalance ==
    sel = "Smooth" => SumCurrent(sw.items) = 0

\* After a next() on three entries the accumulators are not all 0 and
\* still sum to 0.
C19_Witness ==
    /\ sel = "Smooth" /\ op = "next"
    /\ Len(sw.items) = 3
    /\ sw.items[1].current_weight > 0
    /\ sw.items[3].current_weight < 0
    /\ SumCurrent(sw.items) = 0

\* C20: in every reachable state of RoundrobinWeight, 0 <= cw <= max_w.
C20_CountdownBounds ==
    sel = "RR" => (0 <= rr.cw /\ rr.cw <= rr.max_w)

\* The countdown is strictly between 0 and max_w after a next().
C20_Witness ==
    /\ sel = "RR" /\ op = "next"
    /\ 0 < rr.cw /\ rr.cw < rr.max_w

====
